---- MODULE Spec2Model ----
(***************************************************************************)
(* Model of the pix colour-channel core: channel.rs (Ch8, Ch16, Ch32 and   *)
(* their arithmetic and width conversions), alpha.rs (Straight and         *)
(* Premultiplied alpha modes), format.rs (Format::convert) and mask.rs     *)
(* (the Mask pixel format).  The Rgb formats and the gamma modes, whose     *)
(* sources (rgb.rs, gamma.rs) are not at hand, follow their documented     *)
(* behaviour and the vectors of format.rs's tests.                         *)
(*                                                                         *)
(* Values.  Every scalar is a record [t, n, d]: t is its Rust type ("u8",  *)
(* "u16", "f32", "Ch8", "Ch16", "Ch32") and n/d its value.  Integer types  *)
(* have d = 1.  An f32 is the rational n/d in lowest terms with d > 0, or  *)
(* one of the specials NaN (0/0), +inf (1/0), -inf (-1/0).  The rounding   *)
(* error of f32 arithmetic and the sign of zero are not modelled: an f32   *)
(* operation yields the exact rational result.                             *)
(***************************************************************************)
EXTENDS Integers, Sequences, FiniteSets, TLC

VARIABLES
    pc,      \* position of the running scenario
    ch,      \* channel.rs: the channel value held by the caller
    last,    \* channel.rs: the last operation applied, with its operands
    orig,    \* channel.rs: the value a chain of width conversions started from
    path,    \* channel.rs: the types visited by that chain of conversions
    steps,   \* number of operations applied since the value was constructed
    fault,   \* "none", or the panic the last operation raised
    mode,    \* alpha.rs: the alpha Mode under test
    color,   \* alpha.rs: the colour channel handed to the Mode
    alpha,   \* alpha.rs: the alpha channel handed to the Mode
    cur,     \* alpha.rs: the colour after the encode / decode calls so far
    src,     \* format.rs: the source pixel [fmt, chans]
    dst,     \* format.rs: the destination format D
    rgba,    \* format.rs: the working array `rgba` of convert
    log,     \* the calls made so far, in order
    out      \* format.rs: the pixel built by D::with_rgba

vars == <<pc, ch, last, orig, path, steps, fault,
          mode, color, alpha, cur, src, dst, rgba, log, out>>

-----------------------------------------------------------------------------
(* Integer helpers.                                                        *)

Abs(x) == IF x < 0 THEN -x ELSE x

Min(x, y) == IF x <= y THEN x ELSE y

Max(x, y) == IF x >= y THEN x ELSE y

RECURSIVE Gcd(_, _)
Gcd(x, y) == IF y = 0 THEN x ELSE Gcd(y, x % y)

Pow2(k) == 2 ^ k

\* x << k and x >> k on unsigned integers that do not overflow.
Shl(x, k) == x * Pow2(k)

Shr(x, k) == x \div Pow2(k)

\* x | y for operands with no set bit in common: x is a multiple of some
\* 2^k and y < 2^k.
BitOrDisjoint(x, y) == x + y

-----------------------------------------------------------------------------
(* Scalars.                                                                *)

Val(t, n, d) == [t |-> t, n |-> n, d |-> d]

U8(v) == Val("u8", v, 1)

U16(v) == Val("u16", v, 1)

\* The rational n/d in lowest terms, d > 0.
Rat(n, d) ==
    LET g == Gcd(Abs(n), d)
    IN  [n |-> n \div g, d |-> d \div g]

F32(n, d) == LET r == Rat(n, d) IN Val("f32", r.n, r.d)

NaN == Val("f32", 0, 0)

PosInf == Val("f32", 1, 0)

NegInf == Val("f32", -1, 0)

IsNaN(x) == x.d = 0 /\ x.n = 0

IsFinite(x) == x.d > 0

\* IEEE comparison: every comparison with NaN is false.
FLt(x, y) ==
    /\ ~IsNaN(x)
    /\ ~IsNaN(y)
    /\ IF IsFinite(x) /\ IsFinite(y) THEN x.n * y.d < y.n * x.d
       ELSE IF IsFinite(x) THEN y.n > 0
       ELSE IF IsFinite(y) THEN x.n < 0
       ELSE x.n < y.n

FEq(x, y) == ~IsNaN(x) /\ ~IsNaN(y) /\ x.n = y.n /\ x.d = y.d

FLe(x, y) == FLt(x, y) \/ FEq(x, y)

\* f32::min and f32::max: if one argument is NaN the other is returned.
FMin(x, y) == IF IsNaN(x) THEN y ELSE IF IsNaN(y) THEN x ELSE IF FLt(y, x) THEN y ELSE x

FMax(x, y) == IF IsNaN(x) THEN y ELSE IF IsNaN(y) THEN x ELSE IF FLt(x, y) THEN y ELSE x

FNeg(x) == Val("f32", -x.n, x.d)

FAdd(x, y) ==
    IF IsNaN(x) \/ IsNaN(y) THEN NaN
    ELSE IF ~IsFinite(x) /\ ~IsFinite(y) THEN (IF x.n = y.n THEN x ELSE NaN)
    ELSE IF ~IsFinite(x) THEN Val("f32", x.n, 0)
    ELSE IF ~IsFinite(y) THEN Val("f32", y.n, 0)
    ELSE F32(x.n * y.d + y.n * x.d, x.d * y.d)

FSub(x, y) == FAdd(x, FNeg(y))

Sign(n) == IF n > 0 THEN 1 ELSE IF n < 0 THEN -1 ELSE 0

FMul(x, y) ==
    IF IsNaN(x) \/ IsNaN(y) THEN NaN
    ELSE IF ~IsFinite(x) \/ ~IsFinite(y)
         THEN (IF x.n = 0 \/ y.n = 0 THEN NaN
               ELSE Val("f32", Sign(x.n) * Sign(y.n), 0))
    ELSE LET g1 == Gcd(Abs(x.n), y.d)
             g2 == Gcd(Abs(y.n), x.d)
         IN  F32((x.n \div g1) * (y.n \div g2), (x.d \div g2) * (y.d \div g1))

FDiv(x, y) ==
    IF IsNaN(x) \/ IsNaN(y) THEN NaN
    ELSE IF ~IsFinite(x) THEN (IF ~IsFinite(y) THEN NaN
                               ELSE Val("f32", x.n * (IF y.n < 0 THEN -1 ELSE 1), 0))
    ELSE IF ~IsFinite(y) THEN F32(0, 1)
    ELSE IF y.n = 0 THEN (IF x.n = 0 THEN NaN ELSE Val("f32", Sign(x.n), 0))
    ELSE FMul(x, Val("f32", Sign(y.n) * y.d, Abs(y.n)))

\* f32::round: to the nearest integer, halves away from zero; NaN and the
\* infinities are returned unchanged.
FRound(x) ==
    IF ~IsFinite(x) THEN x
    ELSE Val("f32", Sign(x.n) * ((2 * Abs(x.n) + x.d) \div (2 * x.d)), 1)

\* `x as uN` for an f32 x with an integer value: the cast saturates at 0 and
\* at `top`, and NaN casts to 0.
CastSat(x, top) ==
    IF IsNaN(x) THEN 0
    ELSE IF ~IsFinite(x) THEN (IF x.n > 0 THEN top ELSE 0)
    ELSE Max(0, Min(top, x.n))

\* u8 / u16 -> f32 (std), f32 -> f32, and From<Ch32> for f32.
F32From(r) == Val("f32", r.n, r.d)

-----------------------------------------------------------------------------
(* channel.rs: constructors and constants.                                 *)

U8MAX == 255

U16MAX == 65535

Ch8(v) == Val("Ch8", v, 1)

Ch16(v) == Val("Ch16", v, 1)

\* The tuple struct constructor Ch32(f32): wraps the float unchecked.
Ch32(f) == Val("Ch32", f.n, f.d)

Ch32New(value) ==
    Ch32(IF IsNaN(value) \/ FLt(value, F32(0, 1)) THEN F32(0, 1)
         ELSE IF FLt(F32(1, 1), value) THEN F32(1, 1)
         ELSE value)

MIN(t) == CASE t = "Ch8" -> Ch8(0) [] t = "Ch16" -> Ch16(0) [] t = "Ch32" -> Ch32(F32(0, 1))

MAX(t) == CASE t = "Ch8" -> Ch8(U8MAX) [] t = "Ch16" -> Ch16(U16MAX) [] t = "Ch32" -> Ch32(F32(1, 1))

\* value >= 0.0 && value <= 1.0, the condition of the debug assertions.
InUnit(c) == FLe(F32(0, 1), c) /\ FLe(c, F32(1, 1))

-----------------------------------------------------------------------------
(* channel.rs: width conversions.                                          *)

Ch16FromCh8(c) == Ch16(BitOrDisjoint(Shl(c.n, 8) % 65536, c.n))

\* Mutant of Ch8FromCh16: rounds to the nearest byte instead of truncating.
Ch8FromCh16Rounded(c) == Ch8(Shr(c.n + 128, 8) % 256)

Ch8FromCh16(c) == Ch8(Shr(c.n, 8) % 256)

\* Mutant of Ch32FromCh8: divides by the number of levels, not by the maximum.
Ch32FromCh8By256(c) == Ch32(FDiv(F32From(c), F32(256, 1)))

Ch32FromCh8(c) == Ch32(FDiv(F32From(c), F32(255, 1)))

Ch32FromCh16(c) == Ch32(FDiv(F32From(c), F32(65535, 1)))

\* Mutant of Ch8FromCh32: the product is cast without round().
Ch8FromCh32Truncated(c) ==
    LET v == FMul(F32From(c), F32(255, 1))
    IN  Ch8(CastSat(IF IsFinite(v) THEN F32(v.n \div v.d, 1) ELSE v, 255))

Ch8FromCh32(c) == Ch8(CastSat(FRound(FMul(F32From(c), F32(255, 1))), 255))

Ch16FromCh32(c) == Ch16(CastSat(FRound(FMul(F32From(c), F32(65535, 1))), 65535))

\* The operand types R of the operators: Ch8: From<R>, Ch16: From<R>, and
\* for Ch32 the types with f32: From<R> that this crate provides.
Accepts(t) ==
    CASE t = "Ch8" -> {"u8", "f32", "Ch8", "Ch16", "Ch32"}
      [] t = "Ch16" -> {"u16", "f32", "Ch8", "Ch16", "Ch32"}
      [] t = "Ch32" -> {"f32", "Ch32"}

Ch8From(r) ==
    CASE r.t = "u8" -> Ch8(r.n)
      [] r.t = "f32" -> Ch8FromCh32(Ch32New(r))
      [] r.t = "Ch8" -> r
      [] r.t = "Ch16" -> Ch8FromCh16(r)
      [] r.t = "Ch32" -> Ch8FromCh32(r)

Ch16From(r) ==
    CASE r.t = "u16" -> Ch16(r.n)
      [] r.t = "f32" -> Ch16FromCh32(Ch32New(r))
      [] r.t = "Ch8" -> Ch16FromCh8(r)
      [] r.t = "Ch16" -> r
      [] r.t = "Ch32" -> Ch16FromCh32(r)

\* From<R> for Ch32: f32 (clamped by Ch32::new), Ch8, Ch16, and Ch32 itself.
Ch32From(r) ==
    CASE r.t = "f32" -> Ch32New(r)
      [] r.t = "Ch8" -> Ch32FromCh8(r)
      [] r.t = "Ch16" -> Ch32FromCh16(r)
      [] r.t = "Ch32" -> r

From(t, r) ==
    CASE t = "Ch8" -> Ch8From(r)
      [] t = "Ch16" -> Ch16From(r)
      [] t = "Ch32" -> Ch32From(r)

\* The conversion From(t, r) runs a debug assertion that fails.
FromAsserts(t, r) == t \in {"Ch8", "Ch16"} /\ r.t = "Ch32" /\ ~InUnit(r)

-----------------------------------------------------------------------------
(* channel.rs: arithmetic.  `rhs` is an operand of any accepted type.      *)

\* (l * r) >> 32 on u64, for l, r < 2^24, computed in 12-bit limbs so that no
\* intermediate exceeds 31 bits.
MulShr32(l, r) ==
    LET lh == Shr(l, 12)
        ll == l % 4096
        rh == Shr(r, 12)
        rl == r % 4096
        t  == lh * rl + ll * rh + Shr(ll * rl, 12)
    IN  Shr(lh * rh + Shr(t, 12), 8)

\* min((s << 16) / r, 65535) on u64, for s < 2^16 and 0 < r < 2^16, by long
\* division in two 8-bit steps.
ShlDiv16Min(s, r) ==
    LET q1 == Shl(s, 8) \div r
        r1 == Shl(s, 8) % r
    IN  IF q1 >= 256 THEN 65535
        ELSE Min(Shl(q1, 8) + Shl(r1, 8) \div r, 65535)

Ch8Add(self, rhs) == Ch8(Min(self.n + Ch8From(rhs).n, 255))

Ch8Sub(self, rhs) == Ch8(Max(self.n - Ch8From(rhs).n, 0))

\* Mutant of Ch8Mul: the product is rounded to nearest before the shift.
Ch8MulRounded(self, rhs) ==
    LET l0 == self.n
        l  == BitOrDisjoint(Shl(l0, 4), Shr(l0, 4))
        r0 == Ch8From(rhs).n
        r  == BitOrDisjoint(Shl(r0, 4), Shr(r0, 4))
    IN  Ch8(Shr(l * r + 32768, 16) % 256)

\* Mutant of Ch8Mul: the product is shifted by 17 bits, not 16.
Ch8MulShr17(self, rhs) ==
    LET l0 == self.n
        l  == BitOrDisjoint(Shl(l0, 4), Shr(l0, 4))
        r0 == Ch8From(rhs).n
        r  == BitOrDisjoint(Shl(r0, 4), Shr(r0, 4))
    IN  Ch8(Shr(l * r, 17) % 256)

\* Mutant of Ch8Mul: an 8.8 fixed-point product without the bit replication.
Ch8MulPlain(self, rhs) == Ch8(Shr(self.n * Ch8From(rhs).n, 8) % 256)

Ch8Mul(self, rhs) ==
    LET l0 == self.n
        l  == BitOrDisjoint(Shl(l0, 4), Shr(l0, 4))
        r0 == Ch8From(rhs).n
        r  == BitOrDisjoint(Shl(r0, 4), Shr(r0, 4))
    IN  Ch8(Shr(l * r, 16) % 256)

\* Mutant of Ch8Div: the quotient is cast without the clamp to 255.
Ch8DivNoClamp(self, rhs) ==
    LET r == Ch8From(rhs).n
    IN  IF r > 0 THEN Ch8((Shl(self.n, 8) \div r) % 256)
        ELSE Ch8(0)

Ch8Div(self, rhs) ==
    LET r == Ch8From(rhs).n
    IN  IF r > 0 THEN Ch8(Min(Shl(self.n, 8) \div r, 255) % 256)
        ELSE Ch8(0)

Ch16Add(self, rhs) == Ch16(Min(self.n + Ch16From(rhs).n, 65535))

Ch16Sub(self, rhs) == Ch16(Max(self.n - Ch16From(rhs).n, 0))

Ch16Mul(self, rhs) ==
    LET l0 == self.n
        l  == BitOrDisjoint(Shl(l0, 8), Shr(l0, 8))
        r0 == Ch16From(rhs).n
        r  == BitOrDisjoint(Shl(r0, 8), Shr(r0, 8))
    IN  Ch16(MulShr32(l, r) % 65536)

\* Mutant of Ch16Div: the dividend is scaled by 8 bits, as in Ch8, not by 16.
Ch16DivShl8(self, rhs) ==
    LET r == Ch16From(rhs).n
    IN  IF r > 0 THEN Ch16(Min(Shl(self.n, 8) \div r, 65535) % 65536)
        ELSE Ch16(0)

Ch16Div(self, rhs) ==
    LET r == Ch16From(rhs).n
    IN  IF r > 0 THEN Ch16(ShlDiv16Min(self.n, r) % 65536)
        ELSE Ch16(0)

Ch32Add(self, rhs) == Ch32(FMin(FAdd(F32From(self), F32From(rhs)), F32(1, 1)))

Ch32Sub(self, rhs) == Ch32(FMax(FSub(F32From(self), F32From(rhs)), F32(0, 1)))

Ch32Mul(self, rhs) == Ch32(FMul(F32From(self), F32From(rhs)))

\* Mutant of Ch32Div: the quotient is kept without .min(1.0).
Ch32DivNoClamp(self, rhs) ==
    LET v == F32From(rhs)
    IN  IF FLt(F32(0, 1), v) THEN Ch32(FDiv(F32From(self), v))
        ELSE Ch32(F32(0, 1))

Ch32Div(self, rhs) ==
    LET v == F32From(rhs)
    IN  IF FLt(F32(0, 1), v) THEN Ch32(FMin(FDiv(F32From(self), v), F32(1, 1)))
        ELSE Ch32(F32(0, 1))

Add(self, rhs) ==
    CASE self.t = "Ch8" -> Ch8Add(self, rhs)
      [] self.t = "Ch16" -> Ch16Add(self, rhs)
      [] self.t = "Ch32" -> Ch32Add(self, rhs)

Sub(self, rhs) ==
    CASE self.t = "Ch8" -> Ch8Sub(self, rhs)
      [] self.t = "Ch16" -> Ch16Sub(self, rhs)
      [] self.t = "Ch32" -> Ch32Sub(self, rhs)

Mul(self, rhs) ==
    CASE self.t = "Ch8" -> Ch8Mul(self, rhs)
      [] self.t = "Ch16" -> Ch16Mul(self, rhs)
      [] self.t = "Ch32" -> Ch32Mul(self, rhs)

Div(self, rhs) ==
    CASE self.t = "Ch8" -> Ch8Div(self, rhs)
      [] self.t = "Ch16" -> Ch16Div(self, rhs)
      [] self.t = "Ch32" -> Ch32Div(self, rhs)

-----------------------------------------------------------------------------
(* Inputs of the scenarios.                                                *)

\* Number of operations applied to a value after its construction.
MaxSteps == 2

\* Number of evenly spaced 16-bit sample points.
U16Grid == 8

RawU8 == {U8(v) : v \in 0..U8MAX}

RawU16 ==
    {U16(v) : v \in {0, 1, 255, 256, 257, 32767, 32768, 65534, U16MAX}
                    \cup {(i * U16MAX) \div U16Grid : i \in 0..U16Grid}}

RawF32 ==
    {NaN, NegInf, PosInf, F32(-1, 1), F32(0, 1), F32(1, 16), F32(1, 8),
     F32(1, 4), F32(1, 2), F32(3, 4), F32(1, 1), F32(3, 1)}

SomeU8 == {U8(v) : v \in {0, 1, 16, 32, 64, 127, 128, 254, U8MAX}}

\* The raw values a channel of type t is constructed from (new / From):
\* every u8 in the width scenario, a sample of them in the channel scenario.
NewFrom(t) ==
    CASE t = "Ch8" -> (IF pc = "width" THEN RawU8 ELSE SomeU8) \cup RawF32
      [] t = "Ch16" -> RawU16 \cup RawF32
      [] t = "Ch32" -> RawF32

ChanTypes == {"Ch8", "Ch16", "Ch32"}

\* Right-hand operands of the arithmetic operators: raw f32 values, and
\* channel values as their constructors build them.  (The std impls
\* f32: From<u8 | u16 | i8 | i16> make raw integers acceptable to Ch32's
\* operators too; they act as the f32 of the same value.)
Operands ==
    {NaN, F32(-1, 1), F32(1, 4), F32(1, 2), F32(1, 1), F32(3, 1)}
    \cup {U8(128), U16(32768)}
    \cup {Ch8(0), Ch8(128), Ch8(U8MAX)}
    \cup {Ch16(0), Ch16(32768), Ch16(U16MAX)}
    \cup {Ch32New(F32(0, 1)), Ch32New(F32(1, 2)), Ch32New(F32(1, 1))}

NoVal == Val("none", 0, 1)

NoFmt == [model |-> "none", chan |-> "none", alpha |-> "none", gamma |-> "none"]

NoPix == [fmt |-> NoFmt, chans |-> <<>>]

-----------------------------------------------------------------------------
(* Scenario 1, channel.rs: a caller constructs a channel value and applies *)
(* the public operations to it.                                            *)

Op(op, lhs, rhs) == [op |-> op, lhs |-> lhs, rhs |-> rhs]

IdleRest ==
    /\ mode = "none"
    /\ color = NoVal
    /\ alpha = NoVal
    /\ cur = NoVal
    /\ src = NoPix
    /\ dst = NoFmt
    /\ rgba = <<>>
    /\ log = <<>>
    /\ out = NoPix

InitChannel ==
    /\ pc = "channel"
    /\ ch = Ch8(0)
    /\ last = Op("default", NoVal, NoVal)
    /\ orig = Ch8(0)
    /\ path = <<"Ch8">>
    /\ steps = 0
    /\ fault = "none"
    /\ IdleRest

ChanRest == UNCHANGED <<pc, mode, color, alpha, cur, src, dst, rgba, log, out>>

\* Ch8::new / Ch16::new / Ch32::new and the From<u8 | u16 | f32> impls, on
\* the default value the scenario starts from.
ChNew ==
    /\ pc \in {"channel", "width"}
    /\ last.op = "default"
    /\ \E t \in ChanTypes : \E r \in NewFrom(t) :
          /\ ch' = From(t, r)
          /\ last' = Op("new", NoVal, r)
          /\ orig' = From(t, r)
          /\ path' = <<t>>
    /\ steps' = 0
    /\ fault' = "none"
    /\ ChanRest

\* `.into()`: one of the six conversions between Ch8, Ch16 and Ch32.  The
\* conversions from Ch32 assert the range in a build with debug assertions
\* and panic when it fails; a build without them casts.
ChInto ==
    /\ pc \in {"channel", "width"}
    /\ fault = "none"
    /\ steps < MaxSteps
    /\ \E t \in ChanTypes \ {ch.t} :
          \/ /\ FromAsserts(t, ch)
             /\ fault' = "debug_assert"
             /\ UNCHANGED <<ch, orig, path>>
          \/ /\ fault' = "none"
             /\ ch' = From(t, ch)
             /\ path' = Append(path, t)
             /\ UNCHANGED orig
    /\ last' = Op("into", ch, NoVal)
    /\ steps' = steps + 1
    /\ ChanRest

\* self `op` rhs for one of the operators Add, Sub, Mul, Div.
Arith(op, self, rhs) ==
    CASE op = "add" -> Add(self, rhs)
      [] op = "sub" -> Sub(self, rhs)
      [] op = "mul" -> Mul(self, rhs)
      [] op = "div" -> Div(self, rhs)

ChArith(op) ==
    /\ pc = "channel"
    /\ fault = "none"
    /\ steps < MaxSteps
    /\ \E rhs \in Operands :
          /\ rhs.t \in Accepts(ch.t)
          /\ ch' = Arith(op, ch, rhs)
          /\ last' = Op(op, ch, rhs)
          /\ orig' = Arith(op, ch, rhs)
    /\ path' = <<ch.t>>
    /\ steps' = steps + 1
    /\ fault' = "none"
    /\ ChanRest

ChAdd == ChArith("add")

ChSub == ChArith("sub")

ChMul == ChArith("mul")

ChDiv == ChArith("div")

\* Ord::cmp(&self, &other).  Ch8 and Ch16 derive it; Ch32 unwraps
\* partial_cmp, which is None when either side is NaN.
ChCmp ==
    /\ pc = "channel"
    /\ fault = "none"
    /\ steps < MaxSteps
    /\ \E other \in Operands :
          /\ other.t = ch.t
          /\ last' = Op("cmp", ch, other)
          /\ fault' = IF ch.t = "Ch32" /\ (IsNaN(ch) \/ IsNaN(other))
                      THEN "unwrap" ELSE "none"
    /\ steps' = steps + 1
    /\ UNCHANGED <<ch, orig, path>>
    /\ ChanRest

NextChannel == ChNew \/ ChInto \/ ChAdd \/ ChSub \/ ChMul \/ ChDiv \/ ChCmp

SpecChannel == InitChannel /\ [][NextChannel]_vars

-----------------------------------------------------------------------------
(* Scenario 2, channel.rs: a caller constructs a channel value and passes  *)
(* it through a chain of width conversions.                                *)

InitWidth ==
    /\ pc = "width"
    /\ ch = Ch8(0)
    /\ last = Op("default", NoVal, NoVal)
    /\ orig = Ch8(0)
    /\ path = <<"Ch8">>
    /\ steps = 0
    /\ fault = "none"
    /\ IdleRest

NextWidth == ChNew \/ ChInto

SpecWidth == InitWidth /\ [][NextWidth]_vars

-----------------------------------------------------------------------------
(* alpha.rs: the alpha modes.                                              *)

StraightEncode(c, a) == c

StraightDecode(c, a) == c

PremultipliedEncode(c, a) == Mul(c, a)

\* Mutant of PremultipliedDecode: a colour with alpha MIN is left as it is.
PremultipliedDecodeKeep(c, a) == IF a = MIN(a.t) THEN c ELSE Div(c, a)

PremultipliedDecode(c, a) == Div(c, a)

\* M::encode and M::decode for the Mode M named by m.
Encode(m, c, a) ==
    CASE m = "Straight" -> StraightEncode(c, a)
      [] m = "Premultiplied" -> PremultipliedEncode(c, a)

Decode(m, c, a) ==
    CASE m = "Straight" -> StraightDecode(c, a)
      [] m = "Premultiplied" -> PremultipliedDecode(c, a)

-----------------------------------------------------------------------------
(* Scenario 3, alpha.rs: a caller hands a colour and an alpha channel of   *)
(* the same type to a Mode and round-trips the colour: encode then decode, *)
(* or decode then encode.                                                  *)

AllCh8 == {Ch8(v) : v \in 0..U8MAX}

SomeCh8 == {Ch8From(r) : r \in SomeU8}

SomeCh16 == {Ch16From(r) : r \in RawU16}

SomeCh32 == {Ch32New(r) : r \in RawF32} \cup {Ch32FromCh8(Ch8(v)) : v \in {1, 128, 254}}

\* The (colour, alpha) pairs handed to mode m: every pair of Ch8 values for
\* Premultiplied, samples otherwise.
CodecPairs(m) ==
    (IF m = "Premultiplied" THEN AllCh8 \X AllCh8 ELSE SomeCh8 \X SomeCh8)
    \cup (SomeCh16 \X SomeCh16)
    \cup (SomeCh32 \X SomeCh32)

InitCodec ==
    /\ pc = "codec"
    /\ mode \in {"Straight", "Premultiplied"}
    /\ \E p \in CodecPairs(mode) :
          /\ color = p[1]
          /\ alpha = p[2]
          /\ cur = p[1]
    /\ log = <<>>
    /\ ch = NoVal
    /\ last = Op("none", NoVal, NoVal)
    /\ orig = NoVal
    /\ path = <<>>
    /\ steps = 0
    /\ fault = "none"
    /\ src = NoPix
    /\ dst = NoFmt
    /\ rgba = <<>>
    /\ out = NoPix

CodecRest ==
    UNCHANGED <<pc, ch, last, orig, path, steps, fault, mode, color, alpha,
                src, dst, rgba, out>>

\* cur = M::encode(cur, alpha), as the first call or after a decode.
ModeEncode ==
    /\ pc = "codec"
    /\ log \in {<<>>, <<"decode">>}
    /\ cur' = Encode(mode, cur, alpha)
    /\ log' = Append(log, "encode")
    /\ CodecRest

\* cur = M::decode(cur, alpha), as the first call or after an encode.
ModeDecode ==
    /\ pc = "codec"
    /\ log \in {<<>>, <<"encode">>}
    /\ cur' = Decode(mode, cur, alpha)
    /\ log' = Append(log, "decode")
    /\ CodecRest

NextCodec == ModeEncode \/ ModeDecode

SpecCodec == InitCodec /\ [][NextCodec]_vars

-----------------------------------------------------------------------------
(* Gamma modes.  gamma.rs is not among the sources: Linear is the identity *)
(* and Srgb the standard sRGB transfer function, here tabulated for 8-bit  *)
(* channels as round(255 * f(v / 255)); the tables reproduce the vectors   *)
(* of format.rs's tests linear_to_srgb, srgb_to_linear and                 *)
(* straight_to_premultiplied_srgb.                                         *)

SrgbToLinearU8 ==
  <<
      0,   0,   0,   0,   0,   0,   0,   1,   1,   1,   1,   1,   1,   1,   1,   1,
      1,   1,   2,   2,   2,   2,   2,   2,   2,   2,   3,   3,   3,   3,   3,   3,
      4,   4,   4,   4,   4,   5,   5,   5,   5,   6,   6,   6,   6,   7,   7,   7,
      8,   8,   8,   8,   9,   9,   9,  10,  10,  10,  11,  11,  12,  12,  12,  13,
     13,  13,  14,  14,  15,  15,  16,  16,  17,  17,  17,  18,  18,  19,  19,  20,
     20,  21,  22,  22,  23,  23,  24,  24,  25,  25,  26,  27,  27,  28,  29,  29,
     30,  30,  31,  32,  32,  33,  34,  35,  35,  36,  37,  37,  38,  39,  40,  41,
     41,  42,  43,  44,  45,  45,  46,  47,  48,  49,  50,  51,  51,  52,  53,  54,
     55,  56,  57,  58,  59,  60,  61,  62,  63,  64,  65,  66,  67,  68,  69,  70,
     71,  72,  73,  74,  76,  77,  78,  79,  80,  81,  82,  84,  85,  86,  87,  88,
     90,  91,  92,  93,  95,  96,  97,  99, 100, 101, 103, 104, 105, 107, 108, 109,
    111, 112, 114, 115, 116, 118, 119, 121, 122, 124, 125, 127, 128, 130, 131, 133,
    134, 136, 138, 139, 141, 142, 144, 146, 147, 149, 151, 152, 154, 156, 157, 159,
    161, 163, 164, 166, 168, 170, 171, 173, 175, 177, 179, 181, 183, 184, 186, 188,
    190, 192, 194, 196, 198, 200, 202, 204, 206, 208, 210, 212, 214, 216, 218, 220,
    222, 224, 226, 229, 231, 233, 235, 237, 239, 242, 244, 246, 248, 250, 253, 255
  >>

SrgbFromLinearU8 ==
  <<
      0,  13,  22,  28,  34,  38,  42,  46,  50,  53,  56,  59,  61,  64,  66,  69,
     71,  73,  75,  77,  79,  81,  83,  85,  86,  88,  90,  92,  93,  95,  96,  98,
     99, 101, 102, 104, 105, 106, 108, 109, 110, 112, 113, 114, 115, 117, 118, 119,
    120, 121, 122, 124, 125, 126, 127, 128, 129, 130, 131, 132, 133, 134, 135, 136,
    137, 138, 139, 140, 141, 142, 143, 144, 145, 146, 147, 148, 148, 149, 150, 151,
    152, 153, 154, 155, 155, 156, 157, 158, 159, 159, 160, 161, 162, 163, 163, 164,
    165, 166, 167, 167, 168, 169, 170, 170, 171, 172, 173, 173, 174, 175, 175, 176,
    177, 178, 178, 179, 180, 180, 181, 182, 182, 183, 184, 185, 185, 186, 187, 187,
    188, 189, 189, 190, 190, 191, 192, 192, 193, 194, 194, 195, 196, 196, 197, 197,
    198, 199, 199, 200, 200, 201, 202, 202, 203, 203, 204, 205, 205, 206, 206, 207,
    208, 208, 209, 209, 210, 210, 211, 212, 212, 213, 213, 214, 214, 215, 215, 216,
    216, 217, 218, 218, 219, 219, 220, 220, 221, 221, 222, 222, 223, 223, 224, 224,
    225, 226, 226, 227, 227, 228, 228, 229, 229, 230, 230, 231, 231, 232, 232, 233,
    233, 234, 234, 235, 235, 236, 236, 237, 237, 238, 238, 238, 239, 239, 240, 240,
    241, 241, 242, 242, 243, 243, 244, 244, 245, 245, 246, 246, 246, 247, 247, 248,
    248, 249, 249, 250, 250, 251, 251, 251, 252, 252, 253, 253, 254, 254, 255, 255
  >>

\* G::to_linear and G::from_linear for the gamma Mode named by g.
ToLinear(g, c) ==
    CASE g = "Linear" -> c
      [] g = "Srgb" -> Ch8(SrgbToLinearU8[c.n + 1])

FromLinear(g, c) ==
    CASE g = "Linear" -> c
      [] g = "Srgb" -> Ch8(SrgbFromLinearU8[c.n + 1])

-----------------------------------------------------------------------------
(* format.rs and mask.rs: pixel formats.  A format is a record [model,     *)
(* chan, alpha, gamma]: its colour model and the types Format::Chan,       *)
(* Format::Alpha and Format::Gamma.  A pixel is [fmt, chans].              *)

Fmt(model, chan, a, g) == [model |-> model, chan |-> chan, alpha |-> a, gamma |-> g]

\* Mask<C>: Alpha = Straight, Gamma = Linear.
MaskFmt(chan) == Fmt("Mask", chan, "Straight", "Linear")

\* Mask::new(alpha): C::from(alpha).into().
MaskNew(chan, a) == [fmt |-> MaskFmt(chan), chans |-> <<From(chan, a)>>]

\* Mask::alpha.
MaskAlpha(p) == p.chans[1]

\* <Mask<C> as Format>::rgba.
MaskRgba(p) == <<MAX(p.fmt.chan), MAX(p.fmt.chan), MAX(p.fmt.chan), MaskAlpha(p)>>

\* <Mask<C> as Format>::with_rgba.
MaskWithRgba(chan, arr) == MaskNew(chan, arr[4])

\* Rgb with a Translucent alpha channel (rgb.rs is not among the sources):
\* rgba returns the four stored channels and with_rgba stores them.
RgbRgba(p) == p.chans

RgbWithRgba(f, arr) == [fmt |-> f, chans |-> arr]

\* Format::rgba and Format::with_rgba.
Rgba(p) == IF p.fmt.model = "Mask" THEN MaskRgba(p) ELSE RgbRgba(p)

WithRgba(f, arr) ==
    IF f.model = "Mask" THEN MaskWithRgba(f.chan, arr) ELSE RgbWithRgba(f, arr)

\* convert, lines 110-115: each channel through D::Chan::from.
Rescale(chan, arr) ==
    <<From(chan, arr[1]), From(chan, arr[2]), From(chan, arr[3]), From(chan, arr[4])>>

\* One of the four D::Chan::from calls runs a debug assertion that fails.
RescaleAsserts(chan, arr) == \E i \in 1..4 : FromAsserts(chan, arr[i])

\* Mutant of AlphaGammaDiffer: the two TypeId tests joined by && .
AlphaGammaBothDiffer(S, D) == S.alpha # D.alpha /\ S.gamma # D.gamma

\* convert, lines 116-117: the TypeId tests on Alpha and Gamma.
AlphaGammaDiffer(S, D) == S.alpha # D.alpha \/ S.gamma # D.gamma

\* convert_alpha_gamma, line 135.
AlphaDiffer(S, D) == S.alpha # D.alpha

\* Mutant of ToLinearRgb: the alpha channel goes through the gamma too.
ToLinearRgba(g, arr) ==
    <<ToLinear(g, arr[1]), ToLinear(g, arr[2]), ToLinear(g, arr[3]), ToLinear(g, arr[4])>>

\* convert_alpha_gamma, lines 132-134, 137-139, 141-143 and 146-148.
ToLinearRgb(g, arr) ==
    <<ToLinear(g, arr[1]), ToLinear(g, arr[2]), ToLinear(g, arr[3]), arr[4]>>

DecodeRgb(m, arr) ==
    <<Decode(m, arr[1], arr[4]), Decode(m, arr[2], arr[4]), Decode(m, arr[3], arr[4]), arr[4]>>

\* Mutant of EncodeRgb: the alpha channel is encoded like the colours.
EncodeRgba(m, arr) ==
    <<Encode(m, arr[1], arr[4]), Encode(m, arr[2], arr[4]), Encode(m, arr[3], arr[4]),
      Encode(m, arr[4], arr[4])>>

EncodeRgb(m, arr) ==
    <<Encode(m, arr[1], arr[4]), Encode(m, arr[2], arr[4]), Encode(m, arr[3], arr[4]), arr[4]>>

FromLinearRgb(g, arr) ==
    <<FromLinear(g, arr[1]), FromLinear(g, arr[2]), FromLinear(g, arr[3]), arr[4]>>

\* The derived PartialEq of the channel types: Ch32 compares its f32, so a
\* NaN is unequal to itself.
ChanEq(x, y) ==
    /\ x.t = y.t
    /\ IF x.t = "Ch32" THEN FEq(x, y) ELSE x.n = y.n

\* The derived PartialEq of a pixel: the same format, field by field.
PixEq(p, q) ==
    /\ p.fmt = q.fmt
    /\ Len(p.chans) = Len(q.chans)
    /\ \A i \in 1..Len(p.chans) : ChanEq(p.chans[i], q.chans[i])

-----------------------------------------------------------------------------
(* Scenario 4, format.rs: a caller converts a pixel to a format D.  Each   *)
(* action is one block of convert / convert_alpha_gamma.                   *)

Formats ==
    {MaskFmt(c) : c \in ChanTypes}
    \cup {Fmt("Rgb", c, a, g) : c \in ChanTypes, a \in {"Straight", "Premultiplied"},
                                g \in {"Linear", "Srgb"}}

\* Colour triples and alphas of the source pixels; they include the vectors
\* of format.rs's tests.
Colors(chan) ==
    CASE chan = "Ch8" ->
           {<<Ch8(0), Ch8(0), Ch8(0)>>, <<Ch8(32), Ch8(64), Ch8(128)>>,
            <<Ch8(16), Ch8(32), Ch8(64)>>, <<Ch8(220), Ch8(67), Ch8(145)>>,
            <<Ch8(1), Ch8(127), Ch8(254)>>, <<Ch8(U8MAX), Ch8(U8MAX), Ch8(U8MAX)>>}
      [] chan = "Ch16" ->
           {<<Ch16(0), Ch16(0), Ch16(0)>>, <<Ch16(4096), Ch16(16384), Ch16(32768)>>,
            <<Ch16(4096), Ch16(16384), Ch16(8192)>>, <<Ch16(1), Ch16(32767), Ch16(65534)>>,
            <<Ch16(U16MAX), Ch16(U16MAX), Ch16(U16MAX)>>}
      [] chan = "Ch32" ->
           {<<Ch32New(F32(0, 1)), Ch32New(F32(0, 1)), Ch32New(F32(0, 1))>>,
            <<Ch32New(F32(1, 2)), Ch32New(F32(1, 1)), Ch32New(F32(3, 4))>>,
            <<Ch32New(F32(1, 2)), Ch32New(F32(1, 4)), Ch32New(F32(3, 4))>>,
            <<Ch32New(F32(1, 1)), Ch32New(F32(1, 1)), Ch32New(F32(1, 1))>>}

Alphas(chan) ==
    CASE chan = "Ch8" -> {Ch8(v) : v \in {0, 1, 64, 128, 191, U8MAX}}
      [] chan = "Ch16" -> {Ch16(v) : v \in {0, 1, 16384, 32768, U16MAX}}
      [] chan = "Ch32" -> {Ch32New(F32(n, 4)) : n \in 0..4}

\* Ch32 values outside [0, 1] that Ch32's operators build from a raw f32
\* operand: Ch32::new(1.0) * NAN and Ch32::new(0.5) * 3.0.
StrayCh32 == {Ch32Mul(Ch32New(F32(1, 1)), NaN), Ch32Mul(Ch32New(F32(1, 2)), F32(3, 1))}

\* The pixels of format f a caller can hold.
Pixels(f) ==
    IF f.model = "Mask"
    THEN {MaskNew(f.chan, a) :
              a \in Alphas(f.chan) \cup (IF f.chan = "Ch32" THEN StrayCh32 ELSE {})}
    ELSE {RgbWithRgba(f, <<c[1], c[2], c[3], a>>) :
              c \in Colors(f.chan), a \in Alphas(f.chan)}

\* The Srgb transfer function is modelled on Ch8 only: a conversion that
\* calls it has an 8-bit destination.
GammaModelled(S, D) ==
    ((S.alpha # D.alpha \/ S.gamma # D.gamma) /\ "Srgb" \in {S.gamma, D.gamma})
        => D.chan = "Ch8"

\* Ch32 arithmetic is modelled on exact fractions of bounded size: the
\* product of two floats that came from 16-bit channels is left out.
ProductModelled(S, D) == ~(S.chan = "Ch16" /\ D.chan = "Ch32" /\ AlphaDiffer(S, D))

InitConvert ==
    /\ pc = "convert"
    /\ \E S \in Formats, D \in Formats :
          /\ GammaModelled(S, D)
          /\ ProductModelled(S, D)
          /\ src \in Pixels(S)
          /\ dst = D
    /\ rgba = <<>>
    /\ log = <<>>
    /\ out = NoPix
    /\ fault = "none"
    /\ ch = NoVal
    /\ last = Op("none", NoVal, NoVal)
    /\ orig = NoVal
    /\ path = <<>>
    /\ steps = 0
    /\ mode = "none"
    /\ color = NoVal
    /\ alpha = NoVal
    /\ cur = NoVal

ConvRest ==
    UNCHANGED <<ch, last, orig, path, steps, mode, color, alpha, cur, src, dst>>

\* convert, lines 108-120: rgba(), the four D::Chan::from calls and the
\* TypeId tests.  A conversion from Ch32 asserts the range in a build with
\* debug assertions and panics when it fails; a build without them casts.
ConvRescale ==
    /\ pc = "convert"
    /\ \/ /\ RescaleAsserts(dst.chan, Rgba(src))
          /\ fault' = "debug_assert"
          /\ pc' = "panicked"
          /\ UNCHANGED rgba
       \/ /\ rgba' = Rescale(dst.chan, Rgba(src))
          /\ pc' = IF AlphaGammaDiffer(src.fmt, dst) THEN "to_linear" ELSE "with_rgba"
          /\ UNCHANGED fault
    /\ UNCHANGED <<log, out>>
    /\ ConvRest

\* convert_alpha_gamma, lines 131-135.
ConvToLinear ==
    /\ pc = "to_linear"
    /\ rgba' = ToLinearRgb(src.fmt.gamma, rgba)
    /\ log' = Append(log, "to_linear")
    /\ pc' = IF AlphaDiffer(src.fmt, dst) THEN "decode" ELSE "from_linear"
    /\ UNCHANGED <<out, fault>>
    /\ ConvRest

\* convert_alpha_gamma, lines 136-139.
ConvDecode ==
    /\ pc = "decode"
    /\ rgba' = DecodeRgb(src.fmt.alpha, rgba)
    /\ log' = Append(log, "decode")
    /\ pc' = "encode"
    /\ UNCHANGED <<out, fault>>
    /\ ConvRest

\* convert_alpha_gamma, lines 140-143.
ConvEncode ==
    /\ pc = "encode"
    /\ rgba' = EncodeRgb(dst.alpha, rgba)
    /\ log' = Append(log, "encode")
    /\ pc' = "from_linear"
    /\ UNCHANGED <<out, fault>>
    /\ ConvRest

\* convert_alpha_gamma, lines 145-148.
ConvFromLinear ==
    /\ pc = "from_linear"
    /\ rgba' = FromLinearRgb(dst.gamma, rgba)
    /\ log' = Append(log, "from_linear")
    /\ pc' = "with_rgba"
    /\ UNCHANGED <<out, fault>>
    /\ ConvRest

\* convert, line 121.
ConvWithRgba ==
    /\ pc = "with_rgba"
    /\ out' = WithRgba(dst, rgba)
    /\ pc' = "done"
    /\ UNCHANGED <<rgba, log, fault>>
    /\ ConvRest

NextConvert ==
    ConvRescale \/ ConvToLinear \/ ConvDecode \/ ConvEncode \/ ConvFromLinear
    \/ ConvWithRgba

SpecConvert == InitConvert /\ [][NextConvert]_vars

-----------------------------------------------------------------------------
(* All four scenarios.                                                     *)

Init == InitChannel \/ InitWidth \/ InitCodec \/ InitConvert

Next == NextChannel \/ NextWidth \/ NextCodec \/ NextConvert

Spec == Init /\ [][Next]_vars

-----------------------------------------------------------------------------
(* alpha.rs and mask.rs: operations on alphas and masks.                   *)

\* The derived PartialOrd of the channel types: Ch32 compares its f32, so
\* every comparison with a NaN is false.
ChanGt(x, y) == IF x.t = "Ch32" THEN FLt(y, x) ELSE x.n > y.n

ChanLe(x, y) == IF x.t = "Ch32" THEN FLe(x, y) ELSE x.n <= y.n

\* Mul for Translucent, on the values of the two alphas.
TranslucentMul(a, b) == Mul(a, b)

\* Mul for Mask.
MaskMul(p, q) ==
    [fmt |-> p.fmt, chans |-> <<TranslucentMul(MaskAlpha(p), MaskAlpha(q))>>]

\* <Mask as Format>::difference.
MaskDifference(p, q) ==
    MaskNew(p.fmt.chan,
            IF ChanGt(MaskAlpha(p), MaskAlpha(q))
            THEN Sub(MaskAlpha(p), MaskAlpha(q))
            ELSE Sub(MaskAlpha(q), MaskAlpha(p)))

\* <Mask as Format>::within_threshold.
MaskWithinThreshold(p, t) == ChanLe(MaskAlpha(p), MaskAlpha(t))

\* From<Mask<C>> for Rgb<C, A, Premultiplied, G>; Rgb::with_alpha stores
\* the four channels.
RgbPremultipliedFromMask(f, p) ==
    RgbWithRgba(f, <<MaskAlpha(p), MaskAlpha(p), MaskAlpha(p), MaskAlpha(p)>>)

-----------------------------------------------------------------------------
(* Scenario 5: a caller holds a channel value and calls one operator or    *)
(* method on it, then possibly a second one on the same operands.  log     *)
(* holds the calls with their operands and results.                        *)

Call(op, lhs, rhs, res) == [op |-> op, lhs |-> lhs, rhs |-> rhs, res |-> res]

\* The negative powers of two used as float operands.
HalfPowers == {F32(1, 1), F32(1, 2), F32(1, 4), F32(1, 8), F32(1, 16), F32(1, 32)}

OpsCh16 == SomeCh16 \cup {Ch16(Pow2(k)) : k \in 10..15}

OpsCh32 == SomeCh32 \cup StrayCh32

\* The values the caller can hold.
OpsValues == AllCh8 \cup OpsCh16 \cup OpsCh32

\* The values of the type named t.
OpsOfType(t) ==
    CASE t = "Ch8" -> AllCh8
      [] t = "Ch16" -> OpsCh16
      [] t = "Ch32" -> OpsCh32

\* Right-hand sides of the operators for a left-hand side of type t.
OpsRhs(t) == OpsOfType(t) \cup (IF t = "Ch32" THEN RawF32 ELSE HalfPowers)

InitOps ==
    /\ pc = "ops"
    /\ ch \in OpsValues
    /\ last = Op("none", NoVal, NoVal)
    /\ orig = NoVal
    /\ path = <<>>
    /\ steps = 0
    /\ fault = "none"
    /\ IdleRest

OpsRest ==
    UNCHANGED <<pc, ch, last, orig, path, steps, fault, mode, color, alpha, cur,
                src, dst, rgba, out>>

\* ch * rhs.
OpMul ==
    /\ pc = "ops"
    /\ log = <<>>
    /\ \E rhs \in OpsRhs(ch.t) : log' = <<Call("mul", ch, rhs, Mul(ch, rhs))>>
    /\ OpsRest

\* rhs * ch, after ch * rhs, for a right-hand side of ch's own type.
OpMulSwapped ==
    /\ pc = "ops"
    /\ Len(log) = 1
    /\ log[1].op = "mul"
    /\ log[1].rhs.t = ch.t
    /\ log' = Append(log, Call("mul", log[1].rhs, ch, Mul(log[1].rhs, ch)))
    /\ OpsRest

\* MAX * other, after MAX * rhs.
OpMulOther ==
    /\ pc = "ops"
    /\ Len(log) = 1
    /\ log[1].op = "mul"
    /\ log[1].rhs.t = ch.t
    /\ ch = MAX(ch.t)
    /\ \E other \in OpsOfType(ch.t) :
          log' = Append(log, Call("mul", ch, other, Mul(ch, other)))
    /\ OpsRest

\* ch / rhs.
OpDiv ==
    /\ pc = "ops"
    /\ log = <<>>
    /\ \E rhs \in OpsRhs(ch.t) : log' = <<Call("div", ch, rhs, Div(ch, rhs))>>
    /\ OpsRest

\* Premultiplied::encode(ch, a).
OpEncode ==
    /\ pc = "ops"
    /\ log = <<>>
    /\ \E a \in OpsOfType(ch.t) :
          log' = <<Call("encode", ch, a, PremultipliedEncode(ch, a))>>
    /\ OpsRest

\* Translucent::new(ch) * Translucent::new(b).
OpTranslucentMul ==
    /\ pc = "ops"
    /\ log = <<>>
    /\ \E b \in OpsOfType(ch.t) :
          log' = <<Call("translucent_mul", ch, b, TranslucentMul(ch, b))>>
    /\ OpsRest

\* Mask::new(ch) * Mask::new(b).
OpMaskMul ==
    /\ pc = "ops"
    /\ log = <<>>
    /\ \E b \in OpsOfType(ch.t) :
          log' = <<Call("mask_mul", MaskNew(ch.t, ch), MaskNew(ch.t, b),
                        MaskMul(MaskNew(ch.t, ch), MaskNew(ch.t, b)))>>
    /\ OpsRest

NextOps ==
    OpMul \/ OpMulSwapped \/ OpMulOther \/ OpDiv \/ OpEncode \/ OpTranslucentMul
    \/ OpMaskMul

SpecOps == InitOps /\ [][NextOps]_vars

-----------------------------------------------------------------------------
(* Scenario 6, mask.rs: a caller holds a mask p, takes its difference to a *)
(* mask q and tests the difference against a threshold mask t.             *)

InitMask ==
    /\ pc = "mask"
    /\ \E c \in ChanTypes : src \in Pixels(MaskFmt(c))
    /\ ch = NoVal
    /\ last = Op("none", NoVal, NoVal)
    /\ orig = NoVal
    /\ path = <<>>
    /\ steps = 0
    /\ fault = "none"
    /\ mode = "none"
    /\ color = NoVal
    /\ alpha = NoVal
    /\ cur = NoVal
    /\ dst = NoFmt
    /\ rgba = <<>>
    /\ log = <<>>
    /\ out = NoPix

MaskRest ==
    UNCHANGED <<pc, ch, last, orig, path, steps, fault, mode, color, alpha, cur,
                src, dst, rgba>>

\* out = p.difference(q), or q.difference(p) after it.
MaskDiff ==
    /\ pc = "mask"
    /\ \/ /\ log = <<>>
          /\ \E q \in Pixels(src.fmt) :
                /\ out' = MaskDifference(src, q)
                /\ log' = <<Call("difference", src, q, MaskDifference(src, q))>>
       \/ /\ Len(log) = 1
          /\ out' = MaskDifference(log[1].rhs, src)
          /\ log' = Append(log, Call("difference", log[1].rhs, src,
                                     MaskDifference(log[1].rhs, src)))
    /\ MaskRest

\* out.within_threshold(t).
MaskWithin ==
    /\ pc = "mask"
    /\ Len(log) = 1
    /\ \E t \in Pixels(src.fmt) :
          log' = Append(log, Call("within_threshold", out, t,
                                  MaskWithinThreshold(out, t)))
    /\ UNCHANGED out
    /\ MaskRest

NextMask == MaskDiff \/ MaskWithin

SpecMask == InitMask /\ [][NextMask]_vars

-----------------------------------------------------------------------------
(* Claims about channel.rs.                                                *)

InRange(c) ==
    CASE c.t = "Ch8" -> c.d = 1 /\ c.n \in 0..U8MAX
      [] c.t = "Ch16" -> c.d = 1 /\ c.n \in 0..U16MAX
      [] c.t = "Ch32" -> InUnit(c)

\* C1: every channel value obtained through the public operations lies in
\* its normalized range (0..=255, 0..=65535, a non-NaN f32 in [0.0, 1.0]),
\* so neither the debug assertions of the Ch32 -> Ch8 / Ch16 conversions nor
\* the unwrap in Ch32's ordering fails.
C1_RangeInvariant == InRange(ch) /\ fault = "none"

\* C8: widening any Ch8 to Ch16 and narrowing it back returns the same Ch8.
C8_WidenNarrow == path = <<"Ch8", "Ch16", "Ch8">> => ch = orig

C8_Witness ==
    /\ path = <<"Ch8", "Ch16", "Ch8">>
    /\ last = Op("into", Ch16(200 * 257), NoVal)
    /\ orig = Ch8(200)
    /\ ch = Ch8(200)

\* C9: every width conversion maps MIN to MIN and MAX to MAX, so a chain of
\* conversions that starts from MIN or MAX holds MIN or MAX of its current
\* type after every step, and a round trip returns the value it started from.
C9_Extremes ==
    /\ orig = MIN(orig.t) => ch = MIN(ch.t)
    /\ orig = MAX(orig.t) => ch = MAX(ch.t)
    /\ (orig \in {MIN(orig.t), MAX(orig.t)} /\ ch.t = orig.t) => ch = orig

C9_Witness ==
    /\ path = <<"Ch8", "Ch32", "Ch8">>
    /\ orig = MAX("Ch8")
    /\ last = Op("into", MAX("Ch32"), NoVal)
    /\ ch = MAX("Ch8")

\* C10: for every width MAX * MAX == MAX, MAX * MIN == MIN and
\* MIN * MAX == MIN.
C10_MulExtremes ==
    (last.op = "mul" /\ last.rhs.t = last.lhs.t) =>
        LET t == last.lhs.t
        IN  /\ (last.lhs = MAX(t) /\ last.rhs = MAX(t)) => ch = MAX(t)
            /\ (last.lhs = MAX(t) /\ last.rhs = MIN(t)) => ch = MIN(t)
            /\ (last.lhs = MIN(t) /\ last.rhs = MAX(t)) => ch = MIN(t)

C10_Witness ==
    /\ last = Op("mul", MAX("Ch16"), MAX("Ch16"))
    /\ ch = MAX("Ch16")

-----------------------------------------------------------------------------
(* Claims about alpha.rs.                                                  *)

IntChan(c) == c.t \in {"Ch8", "Ch16"}

CeilDiv(x, y) == (x + y - 1) \div y

\* C2 as stated: for Ch8 and Ch16, every alpha a > MIN and every colour c,
\* Premultiplied::decode(Premultiplied::encode(c, a), a) differs from c by at
\* most one unit.
C2_WithinOneUnit ==
    (/\ mode = "Premultiplied"
     /\ IntChan(color)
     /\ alpha # MIN(alpha.t)
     /\ log = <<"encode", "decode">>) => Abs(cur.n - color.n) <= 1

\* C2 as amended: for Ch8 and Ch16, every alpha a > MIN and every colour c,
\* Premultiplied::decode(Premultiplied::encode(c, a), a) differs from c by at
\* most ceil(MAX / a) units, which is one unit only for a = MAX, and never
\* exceeds c by more than one unit.
C2_WithinAlphaScaledError ==
    (/\ mode = "Premultiplied"
     /\ IntChan(color)
     /\ alpha # MIN(alpha.t)
     /\ log = <<"encode", "decode">>) =>
        /\ Abs(cur.n - color.n) <= CeilDiv(MAX(alpha.t).n, alpha.n)
        /\ cur.n <= color.n + 1

C2_Witness ==
    /\ mode = "Premultiplied"
    /\ log = <<"encode", "decode">>
    /\ color = Ch8(200)
    /\ alpha = Ch8(3)
    /\ cur = Ch8(170)

-----------------------------------------------------------------------------
(* Claims about format.rs and mask.rs.                                     *)

\* C4: a pixel converted to its own format compares equal to itself, and
\* with_rgba(rgba(p)) compares equal to p, for every pixel a caller can
\* hold, Mask<Ch32> with any alpha included.
C4_Identity ==
    (pc = "done" /\ dst = src.fmt)
        => /\ PixEq(out, src)
           /\ PixEq(WithRgba(src.fmt, Rgba(src)), src)

\* The tags (Alpha, Gamma) of the source and of the destination differ.
TagsDiffer == src.fmt.alpha # dst.alpha \/ src.fmt.gamma # dst.gamma

\* The four channels of the source at the destination's width.
Rescaled == Rescale(dst.chan, Rgba(src))

\* C5: a finished conversion has made exactly the calls to_linear,
\* [decode, encode,] from_linear in that order when the tags differ, decode
\* and encode only when the alpha modes differ and with the rescaled alpha,
\* and no call when the tags are equal; its channels are then the rescaled
\* source channels.
C5_FixedAlgorithm ==
    pc = "done" =>
        IF ~TagsDiffer
        THEN log = <<>> /\ rgba = Rescaled
        ELSE IF src.fmt.alpha = dst.alpha
        THEN /\ log = <<"to_linear", "from_linear">>
             /\ \A i \in 1..3 :
                   rgba[i] = FromLinear(dst.gamma, ToLinear(src.fmt.gamma, Rescaled[i]))
        ELSE /\ log = <<"to_linear", "decode", "encode", "from_linear">>
             /\ \A i \in 1..3 :
                   rgba[i] = FromLinear(dst.gamma,
                                 Encode(dst.alpha,
                                     Decode(src.fmt.alpha,
                                         ToLinear(src.fmt.gamma, Rescaled[i]),
                                         Rescaled[4]),
                                     Rescaled[4]))

\* Rgba8::new(0x20, 0x40, 0x80, 0x80) converted to Rgba8p is
\* Rgba8p::new(0x10, 0x20, 0x40, 0x80), through all four calls.
C5_Witness ==
    /\ pc = "done"
    /\ src = RgbWithRgba(Fmt("Rgb", "Ch8", "Straight", "Linear"),
                         <<Ch8(32), Ch8(64), Ch8(128), Ch8(128)>>)
    /\ out = RgbWithRgba(Fmt("Rgb", "Ch8", "Premultiplied", "Linear"),
                         <<Ch8(16), Ch8(32), Ch8(64), Ch8(128)>>)
    /\ log = <<"to_linear", "decode", "encode", "from_linear">>

\* C6: from the rescale on, the alpha of a conversion is the rescaled
\* source alpha, and that is the alpha the destination is built from.
C6_AlphaFrame ==
    /\ pc \in {"to_linear", "decode", "encode", "from_linear", "with_rgba", "done"}
          => rgba[4] = From(dst.chan, Rgba(src)[4])
    /\ pc = "done"
          => out.chans[Len(out.chans)] = From(dst.chan, Rgba(src)[4])

\* SRgba8::new(0x20, 0x40, 0x80, 0x80) converted to SRgba8p is
\* SRgba8p::new(0x16, 0x2A, 0x5C, 0x80): the colours change, alpha does not.
C6_Witness ==
    /\ pc = "done"
    /\ src = RgbWithRgba(Fmt("Rgb", "Ch8", "Straight", "Srgb"),
                         <<Ch8(32), Ch8(64), Ch8(128), Ch8(128)>>)
    /\ out = RgbWithRgba(Fmt("Rgb", "Ch8", "Premultiplied", "Srgb"),
                         <<Ch8(22), Ch8(42), Ch8(92), Ch8(128)>>)

\* C7: a division by a channel value of zero gives MIN and no fault;
\* Premultiplied::decode with alpha MIN gives MIN; a premultiplied pixel
\* with alpha MIN converts to a straight pixel with r = g = b = MIN.
C7_DivByZero ==
    /\ (pc = "channel" /\ last.op = "div" /\ last.rhs.t \in ChanTypes
            /\ last.rhs = MIN(last.rhs.t))
          => ch = MIN(last.lhs.t) /\ fault = "none"
    /\ (pc = "codec" /\ mode = "Premultiplied" /\ log = <<"decode">>
            /\ alpha = MIN(alpha.t))
          => cur = MIN(color.t) /\ fault = "none"
    /\ (pc = "done" /\ src.fmt.alpha = "Premultiplied" /\ dst.alpha = "Straight"
            /\ dst.model = "Rgb" /\ Rgba(src)[4] = MIN(src.fmt.chan))
          => \A i \in 1..3 : out.chans[i] = MIN(dst.chan)

\* Rgba8p::new(0x20, 0x40, 0x80, 0) converted to Rgba8 is all zero.
C7_Witness ==
    /\ pc = "done"
    /\ src = RgbWithRgba(Fmt("Rgb", "Ch8", "Premultiplied", "Linear"),
                         <<Ch8(32), Ch8(64), Ch8(128), Ch8(0)>>)
    /\ out = RgbWithRgba(Fmt("Rgb", "Ch8", "Straight", "Linear"),
                         <<Ch8(0), Ch8(0), Ch8(0), Ch8(0)>>)

-----------------------------------------------------------------------------
(* Claims about the operators of channel.rs, alpha.rs and mask.rs.         *)

\* The call c is MAX * x on an integer channel, x of the same type.
MaxTimes(c) ==
    /\ c.op = "mul"
    /\ IntChan(c.lhs)
    /\ c.lhs = MAX(c.lhs.t)
    /\ c.rhs.t = c.lhs.t

\* C11: for Ch8 and Ch16, MAX * x is within one unit of x for every x, and
\* x1 <= x2 implies MAX * x1 <= MAX * x2.
C11_MaxTimesMonotonic ==
    /\ \A i \in DOMAIN log : MaxTimes(log[i]) => Abs(log[i].res.n - log[i].rhs.n) <= 1
    /\ (Len(log) = 2 /\ MaxTimes(log[1]) /\ MaxTimes(log[2])
            /\ log[1].rhs.n <= log[2].rhs.n)
          => log[1].res.n <= log[2].res.n

\* MAX * 7 is 6 and MAX * 8 is 7 on Ch8.
C11_Witness ==
    /\ pc = "ops"
    /\ log = <<Call("mul", Ch8(U8MAX), Ch8(7), Ch8(6)),
               Call("mul", Ch8(U8MAX), Ch8(8), Ch8(7))>>

\* The bit width of the integer channel type named t.
Bits(t) == IF t = "Ch8" THEN 8 ELSE 16

\* The call c has an integer channel on the left and the float 2^-k on the
\* right.
ByHalfPower(c, k) == c.op \in {"mul", "div"} /\ IntChan(c.lhs) /\ c.rhs = F32(1, Pow2(k))

\* C12: with N = 8 for Ch8 and N = 16 for Ch16 and the float 2^-k converted
\* to the channel by rounding (0.5 is 2^(N-1)): for k in 0..4,
\* MAX * 2^-k = 2^(N-k) (MAX for k = 0) and, for k >= 1,
\* 2^(N-1) * 2^-k = 2^(N-1-k); 2^(N-k) / 2^-k = MAX (MAX / 1.0 = MAX),
\* 2^(N-1-k) / 2^-k = 2^(N-1) and 2^(N-2-k) / 2^-k = 2^(N-2).
C12_PowerOfTwoIdentities ==
    \A i \in DOMAIN log : \A k \in 0..4 :
        ByHalfPower(log[i], k) =>
            LET c == log[i]
                N == Bits(c.lhs.t)
                top == MAX(c.lhs.t).n
                whole == IF k = 0 THEN top ELSE Pow2(N - k)
            IN  /\ From(c.lhs.t, F32(1, 2)).n = Pow2(N - 1)
                /\ (c.op = "mul" /\ c.lhs.n = top) => c.res.n = whole
                /\ (c.op = "mul" /\ c.lhs.n = Pow2(N - 1) /\ k >= 1)
                      => c.res.n = Pow2(N - 1 - k)
                /\ (c.op = "div" /\ c.lhs.n = whole) => c.res.n = top
                /\ (c.op = "div" /\ c.lhs.n = Pow2(N - 1 - k)) => c.res.n = Pow2(N - 1)
                /\ (c.op = "div" /\ c.lhs.n = Pow2(N - 2 - k)) => c.res.n = Pow2(N - 2)

\* Ch16::new(4096) / 0.125 is Ch16::new(32768).
C12_Witness ==
    /\ pc = "ops"
    /\ log = <<Call("div", Ch16(4096), F32(1, 8), Ch16(32768))>>

\* The divisor of the call c as a channel of the dividend's type: the
\* integer channels convert the right-hand side, Ch32 takes its f32.
Divisor(c) ==
    IF c.lhs.t = "Ch32" THEN Ch32(F32From(c.rhs)) ELSE From(c.lhs.t, c.rhs)

\* C13: for every width and every a, b with b > MIN, a / b never exceeds
\* MAX, and a / b = MAX whenever a >= b; so a / a = MAX for every a > MIN.
C13_DivClamps ==
    \A i \in DOMAIN log :
        (log[i].op = "div" /\ ChanGt(Divisor(log[i]), MIN(log[i].lhs.t))) =>
            LET c == log[i]
            IN  /\ ~ChanGt(c.res, MAX(c.lhs.t))
                /\ ChanLe(Divisor(c), c.lhs) => c.res = MAX(c.lhs.t)

\* Ch32: 0.75 / 0.25 is clamped to 1.0.
C13_Witness ==
    /\ pc = "ops"
    /\ log = <<Call("div", Ch32New(F32(3, 4)), Ch32New(F32(1, 4)), MAX("Ch32"))>>

-----------------------------------------------------------------------------
(* Claims about end-to-end conversions.                                    *)

Rgba8 == Fmt("Rgb", "Ch8", "Straight", "Linear")

Rgba8p == Fmt("Rgb", "Ch8", "Premultiplied", "Linear")

Rgba16 == Fmt("Rgb", "Ch16", "Straight", "Linear")

\* C14: in linear gamma, Rgba8 (0x20, 0x40, 0x80, 0x80) converts to Rgba8p
\* (0x10, 0x20, 0x40, 0x80); a straight to premultiplied conversion makes
\* each colour the product of the rescaled colour and the rescaled alpha and
\* keeps the alpha; Rgba8p (0x10, 0x20, 0x40, 0x80) converts back to within
\* one unit per channel of the original; Rgba16 (0x1000, 0x4000, 0x8000,
\* 0x4000) converts to Rgba8p (0x04, 0x10, 0x20, 0x40).
C14_StraightPremultiplied ==
    pc = "done" =>
        /\ (src = RgbWithRgba(Rgba8, <<Ch8(32), Ch8(64), Ch8(128), Ch8(128)>>)
                /\ dst = Rgba8p)
              => out = RgbWithRgba(Rgba8p, <<Ch8(16), Ch8(32), Ch8(64), Ch8(128)>>)
        /\ (src.fmt.alpha = "Straight" /\ src.fmt.gamma = "Linear"
                /\ dst.model = "Rgb" /\ dst.alpha = "Premultiplied"
                /\ dst.gamma = "Linear")
              => /\ \A i \in 1..3 : out.chans[i] = Mul(Rescaled[i], Rescaled[4])
                 /\ out.chans[4] = Rescaled[4]
        /\ (src = RgbWithRgba(Rgba8p, <<Ch8(16), Ch8(32), Ch8(64), Ch8(128)>>)
                /\ dst = Rgba8)
              => /\ out.fmt = Rgba8
                 /\ Abs(out.chans[1].n - 32) <= 1
                 /\ Abs(out.chans[2].n - 64) <= 1
                 /\ Abs(out.chans[3].n - 128) <= 1
                 /\ Abs(out.chans[4].n - 128) <= 1
        /\ (src = RgbWithRgba(Rgba16, <<Ch16(4096), Ch16(16384), Ch16(32768), Ch16(16384)>>)
                /\ dst = Rgba8p)
              => out = RgbWithRgba(Rgba8p, <<Ch8(4), Ch8(16), Ch8(32), Ch8(64)>>)

\* The premultiplied result converted back to straight.
C14_Witness ==
    /\ pc = "done"
    /\ src = RgbWithRgba(Rgba8p, <<Ch8(16), Ch8(32), Ch8(64), Ch8(128)>>)
    /\ out = RgbWithRgba(Rgba8, <<Ch8(32), Ch8(64), Ch8(128), Ch8(128)>>)
    /\ log = <<"to_linear", "decode", "encode", "from_linear">>

-----------------------------------------------------------------------------
(* Claims about mask.rs.                                                   *)

\* |x - y| on channel values: on the integers, or on the f32 of Ch32.
AbsDiff(x, y) ==
    IF x.t = "Ch32"
    THEN LET d == FSub(F32From(x), F32From(y))
         IN  Ch32(IF FLt(d, F32(0, 1)) THEN FNeg(d) ELSE d)
    ELSE Val(x.t, Abs(x.n - y.n), 1)

\* C15: for masks p, q and a threshold t of one format, p.difference(q) has
\* alpha |p.alpha - q.alpha|, so it equals q.difference(p) and
\* p.difference(p) has alpha MIN; and p.difference(q).within_threshold(t)
\* holds exactly when |p.alpha - q.alpha| <= t.alpha, so a pixel compared
\* with itself is within every threshold.
C15_DifferenceThreshold ==
    pc = "mask" =>
        /\ Len(log) >= 1 =>
              LET c == log[1]
              IN  /\ ChanEq(MaskAlpha(c.res), AbsDiff(MaskAlpha(c.lhs), MaskAlpha(c.rhs)))
                  /\ c.lhs = c.rhs => ChanEq(MaskAlpha(c.res), MIN(c.lhs.fmt.chan))
        /\ (Len(log) = 2 /\ log[2].op = "difference") => PixEq(log[1].res, log[2].res)
        /\ (Len(log) = 2 /\ log[2].op = "within_threshold") =>
              LET p == log[1].lhs
                  q == log[1].rhs
                  t == log[2].rhs
              IN  /\ log[2].res = ChanLe(AbsDiff(MaskAlpha(p), MaskAlpha(q)), MaskAlpha(t))
                  /\ p = q => log[2].res

\* C16: for Ch8 and Ch16 and every mask alpha a, converting the mask to the
\* premultiplied linear Rgb format of its width gives the colours
\* Premultiplied::encode(MAX, a) = a, the pixel (a, a, a, a) that From<Mask>
\* builds for premultiplied formats.
C16_MaskConversionsAgree ==
    (/\ pc = "done"
     /\ src.fmt.model = "Mask"
     /\ src.fmt.chan \in {"Ch8", "Ch16"}
     /\ dst = Fmt("Rgb", src.fmt.chan, "Premultiplied", "Linear")) =>
        /\ \A i \in 1..3 :
              /\ out.chans[i] = PremultipliedEncode(MAX(dst.chan), MaskAlpha(src))
              /\ out.chans[i] = MaskAlpha(src)
        /\ out = RgbPremultipliedFromMask(dst, src)

-----------------------------------------------------------------------------
(* Claims about the channel product.                                       *)

\* The call c multiplies two integer channels of one type.
IntProduct(c) ==
    /\ c.op \in {"mul", "encode", "translucent_mul"}
    /\ IntChan(c.lhs)
    /\ c.rhs.t = c.lhs.t

\* C17: for Ch8 and Ch16 and all a, b: a * b <= min(a, b) and
\* a * b = b * a; so Premultiplied::encode(c, a) <= a, and the product of
\* two Translucent alphas or of two Masks is no more opaque than either.
C17_ProductBelowOperands ==
    pc = "ops" =>
        /\ \A i \in DOMAIN log :
              /\ IntProduct(log[i])
                    => log[i].res.n <= Min(log[i].lhs.n, log[i].rhs.n)
              /\ (log[i].op = "mask_mul" /\ IntChan(MaskAlpha(log[i].lhs)))
                    => MaskAlpha(log[i].res).n
                           <= Min(MaskAlpha(log[i].lhs).n, MaskAlpha(log[i].rhs).n)
        /\ (Len(log) = 2 /\ IntProduct(log[1]) /\ IntProduct(log[2])
                /\ log[2].lhs = log[1].rhs /\ log[2].rhs = log[1].lhs)
              => log[2].res = log[1].res

\* Ch8: 200 * 100 and 100 * 200 are both 78.
C17_Witness ==
    /\ pc = "ops"
    /\ log = <<Call("mul", Ch8(200), Ch8(100), Ch8(78)),
               Call("mul", Ch8(100), Ch8(200), Ch8(78))>>

====
